---- MODULE Spec2Model ----
(***************************************************************************)
(* FX invoice pipeline of src/src/utils/fxUtils.ts: the process-wide rate  *)
(* cache, fetchFXRates, calculateFXGainLoss, getInvoiceStatus,             *)
(* calculateDaysOutstanding and processInvoiceData.                        *)
(*                                                                         *)
(* JavaScript numbers are modelled as exact rationals <<n, d>> (d > 0, in  *)
(* lowest terms) plus the value NaN; IEEE rounding is not modelled.  An    *)
(* object is a TLA+ record: a property that is undefined is a field that   *)
(* is not in the record's DOMAIN.  Amount texts are sequences of           *)
(* characters, because parseFloat reads them character by character.       *)
(***************************************************************************)
EXTENDS Integers, Sequences, FiniteSets, TLC

VARIABLES fxRateCache, calls, lookups

vars == <<fxRateCache, calls, lookups>>

----------------------------------------------------------------------------
(* JavaScript numbers *)

NaN == <<0, 0>>

RECURSIVE Gcd(_, _)
Gcd(a, b) == IF b = 0 THEN a ELSE Gcd(b, a % b)

Abs(n) == IF n < 0 THEN -n ELSE n

\* the number n/d (d # 0) in lowest terms with a positive denominator
Num(n, d) ==
    LET g == Gcd(Abs(n), Abs(d))
        s == IF d < 0 THEN -1 ELSE 1
    IN  <<(s * n) \div g, (s * d) \div g>>

Whole(n) == <<n, 1>>

IsNaN(x) == x[2] = 0

\* a * b
Mul(a, b) == IF IsNaN(a) \/ IsNaN(b) THEN NaN ELSE Num(a[1] * b[1], a[2] * b[2])

\* a - b
Sub(a, b) ==
    IF IsNaN(a) \/ IsNaN(b) THEN NaN
    ELSE Num(a[1] * b[2] - b[1] * a[2], a[2] * b[2])

\* 1 / a, for the positive rates the rate source publishes
Inv(a) == IF IsNaN(a) \/ a[1] = 0 THEN NaN ELSE Num(a[2], a[1])

\* ToBoolean of a number: 0 and NaN are falsy
TruthyNum(x) == ~IsNaN(x) /\ x[1] # 0

\* Math.ceil(a / b) for integers a and b > 0
CeilDiv(a, b) == -((-a) \div b)

----------------------------------------------------------------------------
(* parseFloat: the longest prefix that is a decimal literal; NaN if none *)

Digits == {"0", "1", "2", "3", "4", "5", "6", "7", "8", "9"}

DigitVal(c) ==
    CASE c = "0" -> 0 [] c = "1" -> 1 [] c = "2" -> 2 [] c = "3" -> 3
      [] c = "4" -> 4 [] c = "5" -> 5 [] c = "6" -> 6 [] c = "7" -> 7
      [] c = "8" -> 8 [] c = "9" -> 9

\* number of leading characters of s, from position i, that are digits
RECURSIVE DigitRun(_, _)
DigitRun(s, i) ==
    IF i <= Len(s) /\ s[i] \in Digits THEN 1 + DigitRun(s, i + 1) ELSE 0

\* value of the digits s[i .. i+n-1], continuing the accumulator acc
RECURSIVE DigitsValue(_, _, _, _)
DigitsValue(s, i, n, acc) ==
    IF n = 0 THEN acc ELSE DigitsValue(s, i + 1, n - 1, 10 * acc + DigitVal(s[i]))

RECURSIVE Pow10(_)
Pow10(k) == IF k = 0 THEN 1 ELSE 10 * Pow10(k - 1)

RECURSIVE SkipSpaces(_, _)
SkipSpaces(s, i) == IF i <= Len(s) /\ s[i] = " " THEN SkipSpaces(s, i + 1) ELSE i

parseFloat(s) ==
    LET i0   == SkipSpaces(s, 1)
        neg  == i0 <= Len(s) /\ s[i0] = "-"
        i1   == IF i0 <= Len(s) /\ s[i0] \in {"-", "+"} THEN i0 + 1 ELSE i0
        nInt == DigitRun(s, i1)
        dot  == i1 + nInt
        nFr  == IF dot <= Len(s) /\ s[dot] = "." THEN DigitRun(s, dot + 1) ELSE 0
        mant == DigitsValue(s, dot + 1, nFr, DigitsValue(s, i1, nInt, 0))
    IN  IF nInt = 0 /\ nFr = 0 THEN NaN
        ELSE Num(IF neg THEN -mant ELSE mant, Pow10(nFr))

----------------------------------------------------------------------------
(* Dates.  A date text is an atomic string; what the two parsers make of   *)
(* it is tabulated here for the texts the inputs are drawn from.           *)

MsPerDay == 86400000

\* new Date(text).getTime(): milliseconds at 00:00 UTC of the day, counted
\* from 2024-02-14T00:00:00Z (differences of two times do not depend on the
\* origin); NaN for a text the Date constructor cannot read
getTime(text) ==
    CASE text = "2024-02-14" -> Whole(0 * MsPerDay)
      [] text = "2024-02-15" -> Whole(1 * MsPerDay)
      [] text = "2024-02-16" -> Whole(2 * MsPerDay)
      [] text \in {"", "not-a-date"} -> NaN

\* whether parseISO(text) is a valid date; format() throws RangeError if not
ValidISO(text) == text \in {"2024-01-15", "20240115", "2024-02-10"}

\* format(parseISO(text), 'yyyy-MM-dd')
formattedDate(text) ==
    CASE text = "2024-01-15" -> "2024-01-15"
      [] text = "20240115"   -> "2024-01-15"
      [] text = "2024-02-10" -> "2024-02-10"

----------------------------------------------------------------------------
(* Objects: a property is undefined iff it is not a field of the record *)

Has(obj, f) == f \in DOMAIN obj

\* ToBoolean(obj[f]) for a text property held as an atomic string
Truthy(obj, f) == Has(obj, f) /\ obj[f] # ""

\* ToBoolean(obj[f]) for a text property held as a sequence of characters
TruthyChars(obj, f) == Has(obj, f) /\ Len(obj[f]) > 0

\* obj[f] ?? dflt for a text property
TextOrNullish(obj, f, dflt) == IF Has(obj, f) THEN obj[f] ELSE dflt

\* obj[f] || dflt for a text property
TextOr(obj, f, dflt) == IF Truthy(obj, f) THEN obj[f] ELSE dflt

One == Whole(1)

\* rates[currency] || 1
RateOr1(rates, currency) ==
    IF currency \in DOMAIN rates /\ TruthyNum(rates[currency])
    THEN rates[currency] ELSE One

----------------------------------------------------------------------------
(* calculateFXGainLoss, getInvoiceStatus, calculateDaysOutstanding *)

calculateFXGainLoss(invoiceAmount, currency, invoiceRates, paymentRates) ==
    IF currency = "USD" THEN Whole(0)
    ELSE LET invoiceRate  == RateOr1(invoiceRates, currency)
             paymentRate  == RateOr1(paymentRates, currency)
             usdAtInvoice == Mul(invoiceAmount, invoiceRate)
             usdAtPayment == Mul(invoiceAmount, paymentRate)
         IN  Sub(usdAtPayment, usdAtInvoice)

\* getInvoiceStatus with the due-date test ahead of the payment test
getInvoiceStatusDueFirst(invoice, today) ==
    LET dueDate == getTime(invoice.Due_Date)
    IN  IF ~IsNaN(dueDate) /\ dueDate[1] < today THEN "Overdue"
        ELSE IF Truthy(invoice, "Payment_Date") THEN "Paid"
        ELSE "Outstanding"

\* today is the value of new Date() read inside the function
getInvoiceStatus(invoice, today) ==
    IF Truthy(invoice, "Payment_Date") THEN "Paid"
    ELSE LET dueDate == getTime(invoice.Due_Date)
         IN  IF ~IsNaN(dueDate) /\ dueDate[1] < today THEN "Overdue"
             ELSE "Outstanding"

\* calculateDaysOutstanding with Math.floor for the Math.ceil of line 108
calculateDaysOutstandingFloor(dueDate, today) ==
    LET due == getTime(dueDate)
    IN  IF IsNaN(due) THEN NaN
        ELSE LET diffTime == today - due[1]
                 diffDays == diffTime \div MsPerDay
             IN  Whole(IF diffDays > 0 THEN diffDays ELSE 0)

\* lines 104-110; today is the value of new Date() read inside the function
calculateDaysOutstanding(dueDate, today) ==
    LET due == getTime(dueDate)
    IN  IF IsNaN(due) THEN NaN
        ELSE LET diffTime == today - due[1]
                 diffDays == CeilDiv(diffTime, MsPerDay)
             IN  Whole(IF diffDays > 0 THEN diffDays ELSE 0)

----------------------------------------------------------------------------
(* processInvoiceData, the synchronous parts *)

Range(seq) == {seq[i] : i \in 1..Len(seq)}

\* [...new Set(rawData.map(row => row.Currency).filter(Boolean))]; the order
\* is immaterial, fetchFXRates sorts the array before it uses it
Currencies(rawData) ==
    {rawData[i].Currency : i \in {j \in 1..Len(rawData) : Truthy(rawData[j], "Currency")}}

\* rawData.map(row => row[f]).filter(Boolean)
RECURSIVE Column(_, _)
Column(rawData, f) ==
    IF rawData = <<>> THEN <<>>
    ELSE (IF Truthy(Head(rawData), f) THEN <<Head(rawData)[f]>> ELSE <<>>)
         \o Column(Tail(rawData), f)

\* [...new Set(seq)]: first occurrences, in order
RECURSIVE Unique(_)
Unique(seq) ==
    IF seq = <<>> THEN <<>>
    ELSE LET front == Unique(SubSeq(seq, 1, Len(seq) - 1))
             last  == seq[Len(seq)]
         IN  IF last \in Range(front) THEN front ELSE Append(front, last)

Dates(rawData) ==
    Unique(Column(rawData, "Invoice_Date") \o Column(rawData, "Payment_Date"))

\* the object literal of lines 130-138
Normalize(row) ==
    LET amount == IF Has(row, "Invoice_Amount") THEN parseFloat(row.Invoice_Amount) ELSE NaN
        base == [Client         |-> TextOr(row, "Client", ""),
                 Invoice_Amount |-> IF TruthyNum(amount) THEN amount ELSE Whole(0),
                 Currency       |-> TextOr(row, "Currency", "USD"),
                 Invoice_Date   |-> TextOr(row, "Invoice_Date", ""),
                 Due_Date       |-> TextOr(row, "Due_Date", "")]
        pd == IF Truthy(row, "Payment_Date")
              THEN [Payment_Date |-> row.Payment_Date] ELSE <<>>
        pa == IF TruthyChars(row, "Payment_Amount")
              THEN [Payment_Amount |-> parseFloat(row.Payment_Amount)] ELSE <<>>
    IN  base @@ pd @@ pa

\* { [invoice.Currency]: 1, USD: 1 }
DefaultRates(currency) == [c \in {currency, "USD"} |-> One]

\* fxRateMap.get(date) || { [currency]: 1, USD: 1 }
RatesOn(fxRateMap, date, currency) ==
    IF date \in DOMAIN fxRateMap THEN fxRateMap[date] ELSE DefaultRates(currency)

\* line 147
usdAmountAtInvoice(invoice, invoiceRates) ==
    Mul(invoice.Invoice_Amount, RateOr1(invoiceRates, invoice.Currency))

\* the condition of line 149 testing the amount alone
paymentAmountRecorded(invoice) ==
    /\ Has(invoice, "Payment_Amount")
    /\ TruthyNum(invoice.Payment_Amount)

\* the condition of line 149: invoice.Payment_Date && invoice.Payment_Amount
paymentRecorded(invoice) ==
    /\ Truthy(invoice, "Payment_Date")
    /\ Has(invoice, "Payment_Amount")
    /\ TruthyNum(invoice.Payment_Amount)

\* line 150
usdAmountAtPayment(invoice, paymentRates) ==
    Mul(invoice.Payment_Amount, RateOr1(paymentRates, invoice.Currency))

\* the body of rawData.map(row => ...), lines 129-164
DeriveRow(row, fxRateMap, today) ==
    LET invoice == Normalize(row)
        invoiceRates == RatesOn(fxRateMap, invoice.Invoice_Date, invoice.Currency)
        paymentRates == IF Truthy(invoice, "Payment_Date")
                        THEN RatesOn(fxRateMap, invoice.Payment_Date, invoice.Currency)
                        ELSE invoiceRates
        atInvoice == [usd_amount_at_invoice |-> usdAmountAtInvoice(invoice, invoiceRates)]
        atPayment ==
            IF paymentRecorded(invoice)
            THEN [usd_amount_at_payment |-> usdAmountAtPayment(invoice, paymentRates),
                  fx_gain_loss |->
                     calculateFXGainLoss(invoice.Invoice_Amount, invoice.Currency,
                                         invoiceRates, paymentRates)]
            ELSE <<>>
        derived == [status           |-> getInvoiceStatus(invoice, today),
                    days_outstanding |-> calculateDaysOutstanding(invoice.Due_Date, today)]
    IN  invoice @@ atInvoice @@ atPayment @@ derived

\* a map that skips the rows whose invoice date has no looked-up rates
RECURSIVE MapRowsWithRates(_, _, _)
MapRowsWithRates(rawData, fxRateMap, today) ==
    IF rawData = <<>> THEN <<>>
    ELSE (IF TextOr(Head(rawData), "Invoice_Date", "") \in DOMAIN fxRateMap
          THEN <<DeriveRow(Head(rawData), fxRateMap, today)>> ELSE <<>>)
         \o MapRowsWithRates(Tail(rawData), fxRateMap, today)

\* rawData.map(row => ...): one record per row, in order
MapRows(rawData, fxRateMap, today) ==
    [i \in 1..Len(rawData) |-> DeriveRow(rawData[i], fxRateMap, today)]

----------------------------------------------------------------------------
(* Inputs: the rows a parsed CSV file can hold, and the rate source *)

MaxRows == 2

T10000 == <<"1", "0", "0", "0", "0">>
T5000  == <<"5", "0", "0", "0">>
T0     == <<"0">>
Tabc   == <<"a", "b", "c">>
T12p5  == <<"1", "2", ".", "5">>

\* a row with every column of the sample file
Row(client, amount, currency, invoiceDate, dueDate, paymentDate, paymentAmount) ==
    [Client |-> client, Invoice_Amount |-> amount, Currency |-> currency,
     Invoice_Date |-> invoiceDate, Due_Date |-> dueDate,
     Payment_Date |-> paymentDate, Payment_Amount |-> paymentAmount]

\* a row of a file without the two optional payment columns
RowNoPayment(client, amount, currency, invoiceDate, dueDate) ==
    [Client |-> client, Invoice_Amount |-> amount, Currency |-> currency,
     Invoice_Date |-> invoiceDate, Due_Date |-> dueDate]

Rows ==
    { Row("Acme",    T10000, "EUR", "2024-01-15", "2024-02-15", "2024-02-10", T10000),
      Row("Partial", T10000, "EUR", "2024-01-15", "2024-02-15", "2024-02-10", T5000),
      Row("Zero",    T10000, "EUR", "2024-01-15", "",           "2024-02-10", T0),
      Row("NoAmt",   T5000,  "EUR", "2024-01-15", "not-a-date", "2024-02-10", <<>>),
      Row("Home",    T10000, "USD", "2024-01-15", "2024-02-15", "2024-02-10", T5000),
      Row("Blank",   Tabc,   "",    "2024-01-15", "2024-02-15", "2024-02-10", T5000),
      Row("",        T12p5,  "EUR", "not-a-date", "2024-02-15", "",           T10000),
      RowNoPayment("Bare", <<>>, "", "", "") }

\* the files: every sequence of 1..MaxRows rows
Batches == UNION {[1..n -> Rows] : n \in 1..MaxRows}

\* the instants new Date() can return: 12:00 of 2024-02-14, 00:00:00.000 and
\* 12:00 of 2024-02-15, 12:00 of 2024-02-16 (UTC)
HalfDay == MsPerDay \div 2

Instants == {HalfDay, MsPerDay, MsPerDay + HalfDay, 2 * MsPerDay + HalfDay}

\* the USD-based rates the source can report: for EUR, 1 USD = 25/27 EUR
\* (1 EUR = 1.08 USD) or 10/11 EUR (1 EUR = 1.10 USD); for its own base USD
\* a source that misreports it (the code overwrites whatever is reported)
ApiRates(currency) ==
    IF currency = "EUR" THEN {<<25, 27>>, <<10, 11>>} ELSE {<<1, 2>>}

\* what the rate source knows
Known == {"EUR", "USD"}

\* the bodies data.rates of a successful answer to symbols=currencies: a rate
\* for each requested currency the source knows and chooses to report (an
\* empty symbols list asks for every currency the source knows)
RateBodies(currencies) ==
    LET asked == IF currencies = {} THEN Known ELSE currencies \cap Known
    IN  UNION {{body \in [S -> UNION {ApiRates(c) : c \in S}] :
                   \A c \in S : body[c] \in ApiRates(c)} : S \in SUBSET asked}

\* the ways a lookup can fail, lines 36-48
Failures == {"network-error", "not-ok", "malformed-body", "success-false", "rates-absent"}

----------------------------------------------------------------------------
(* State *)

\* the processInvoiceData calls of one process lifetime
Calls == {1, 2}

MaxLookups == 4

\* the request URLs: formatted date and symbols
Urls == {"2024-01-15", "2024-02-10"} \X SUBSET {"EUR", "USD"}

NoRates == <<>>

IdleCall ==
    [pc |-> "idle", rawData |-> <<>>, currencies |-> {}, dates |-> <<>>,
     fetches |-> <<>>, result |-> <<>>, today |-> 0]

\* fxRateCache: the Map of line 25, cacheKey -> rates; the key
\*   `${date}-${currencies.sort().join(',')}` is held as <<date, currencies>>
\* calls[c]: one call of processInvoiceData: where it stands (pc), its
\*   argument, its locals currencies and dates, for each date the promise
\*   fetchFXRates returned (how it settled, the body data.rates the source
\*   answered with, the rates it resolved to), the array the call returned
\*   and the instant new Date() gave while it was built
\* lookups[u]: how many requests fetch() has sent for the URL u
Init ==
    /\ fxRateCache = <<>>
    /\ calls = [c \in Calls |-> IdleCall]
    /\ lookups = [u \in Urls |-> 0]

\* a key of the requested currencies alone
cacheKeyNoDate(date, currencies) == <<"", currencies>>

\* line 28
cacheKey(date, currencies) == <<date, currencies>>

\* a catch block that falls back for USD alone
fallbackRatesUsdOnly(currencies) == [c \in {"USD"} |-> One]

\* the catch block, lines 59-69
fallbackRates(currencies) == [c \in currencies \cup {"USD"} |-> One]

\* lines 50-55 without the inversion
usdRatesAsReported(rates) ==
    [c \in DOMAIN rates \cup {"USD"} |-> IF c = "USD" THEN One ELSE rates[c]]

\* lines 50-55 without line 55
usdRatesNoOverride(rates) == [c \in DOMAIN rates |-> Inv(rates[c])]

\* lines 50-55
usdRates(rates) ==
    [c \in DOMAIN rates \cup {"USD"} |-> IF c = "USD" THEN One ELSE Inv(rates[c])]

\* fetchFXRates(date, currencies) down to its first await: a cache hit, a
\* date format() throws on, or a request sent
BeginFetch(date, currencies) ==
    IF cacheKey(date, currencies) \in DOMAIN fxRateCache
    THEN [how |-> "hit", body |-> NoRates,
          rates |-> fxRateCache[cacheKey(date, currencies)]]
    ELSE IF ~ValidISO(date)
    THEN [how |-> "invalid-date", body |-> NoRates, rates |-> fallbackRates(currencies)]
    ELSE [how |-> "pending", body |-> NoRates, rates |-> NoRates]

\* processInvoiceData(rawData), lines 112-125, down to await Promise.all
Start(c, rawData) ==
    LET currencies == Currencies(rawData)
        dates      == Dates(rawData)
        fetches    == [d \in Range(dates) |-> BeginFetch(d, currencies)]
        sent(u)    == Cardinality({d \in Range(dates) :
                          /\ fetches[d].how = "pending"
                          /\ <<formattedDate(d), currencies>> = u})
    IN  /\ calls[c].pc = "idle"
        /\ \A u \in Urls : lookups[u] + sent(u) <= MaxLookups
        /\ calls' = [calls EXCEPT ![c] =
                        [pc |-> "fetching", rawData |-> rawData,
                         currencies |-> currencies, dates |-> dates,
                         fetches |-> fetches, result |-> <<>>, today |-> 0]]
        /\ lookups' = [u \in Urls |-> lookups[u] + sent(u)]
        /\ UNCHANGED fxRateCache

Pending(c, date) ==
    /\ calls[c].pc = "fetching"
    /\ date \in DOMAIN calls[c].fetches
    /\ calls[c].fetches[date].how = "pending"

\* a request settles with a body data.rates: lines 44-58
RespondOk(c, date, rates) ==
    /\ Pending(c, date)
    /\ LET key == cacheKey(date, calls[c].currencies)
           usd == usdRates(rates)
       IN  /\ fxRateCache' = [k \in DOMAIN fxRateCache \cup {key} |->
                                 IF k = key THEN usd ELSE fxRateCache[k]]
           /\ calls' = [calls EXCEPT ![c].fetches[date] =
                                        [how |-> "ok", body |-> rates, rates |-> usd]]
    /\ UNCHANGED lookups

\* a request fails in one of the ways of lines 36-48: the catch block
RespondFail(c, date, failure) ==
    /\ Pending(c, date)
    /\ failure \in Failures
    /\ calls' = [calls EXCEPT ![c].fetches[date] =
                    [how |-> failure, body |-> NoRates,
                     rates |-> fallbackRates(calls[c].currencies)]]
    /\ UNCHANGED <<fxRateCache, lookups>>

\* Promise.all has resolved: lines 125-164
Finish(c, today) ==
    /\ calls[c].pc = "fetching"
    /\ \A d \in DOMAIN calls[c].fetches : calls[c].fetches[d].how # "pending"
    /\ LET fxRateMap == [d \in DOMAIN calls[c].fetches |-> calls[c].fetches[d].rates]
       IN  calls' = [calls EXCEPT ![c].pc = "done",
                                  ![c].today = today,
                                  ![c].result = MapRows(calls[c].rawData, fxRateMap, today)]
    /\ UNCHANGED <<fxRateCache, lookups>>

AllDates == {"2024-01-15", "20240115", "2024-02-10", "not-a-date"}

\* one upload in a fresh process
Next ==
    \/ \E rawData \in Batches : Start(1, rawData)
    \/ \E date \in AllDates : \E rates \in RateBodies(calls[1].currencies) :
           RespondOk(1, date, rates)
    \/ \E date \in AllDates : \E failure \in Failures : RespondFail(1, date, failure)
    \/ \E today \in Instants : Finish(1, today)

Spec == Init /\ [][Next]_vars

----------------------------------------------------------------------------
(* Several uploads in one process: the cache outlives a call *)

\* rows of files without payment columns; "2024-01-15" and "20240115" are
\* two texts of the same calendar day
Acme  == RowNoPayment("Acme",  T10000, "EUR", "2024-01-15", "2024-02-15")
Basic == RowNoPayment("Basic", T5000,  "EUR", "20240115",   "2024-02-15")
Home  == RowNoPayment("Home",  T10000, "USD", "2024-01-15", "2024-02-15")

\* the files uploaded one after the other
SmallBatches == {<<Acme>>, <<Basic>>, <<Acme, Basic>>, <<Acme, Home>>}

\* the instants of the later uploads: 12:00 of 2024-02-14 and of 2024-02-15
LaterInstants == {HalfDay, MsPerDay + HalfDay}

\* the calls are numbered in the order handleDataLoad makes them
InOrder(c) == IF c = 1 THEN TRUE ELSE calls[c - 1].pc # "idle"

\* the file input is disabled while `loading`: the next upload waits for the last
AfterLast(c) == IF c = 1 THEN TRUE ELSE calls[c - 1].pc = "done"

\* what a call can do once it has started
Step(c) ==
    \/ \E date \in AllDates : \E rates \in RateBodies(calls[c].currencies) :
           RespondOk(c, date, rates)
    \/ \E date \in AllDates : RespondFail(c, date, "network-error")
    \/ \E today \in LaterInstants : Finish(c, today)

\* uploads one after the other
NextSeq ==
    \/ \E c \in Calls : \E rawData \in SmallBatches : AfterLast(c) /\ Start(c, rawData)
    \/ \E c \in Calls : Step(c)

SpecSeq == Init /\ [][NextSeq]_vars

\* the steps of the program itself are taken when they can be; the source
\* owes no answer: fetch() of line 36 has no timeout and no AbortController
Completes(c) == \E today \in LaterInstants : Finish(c, today)

SpecLive == Init /\ [][NextSeq]_vars /\ \A c \in Calls : WF_vars(Completes(c))

\* a file dropped while `loading` (handleDrop does not look at it):
\* processInvoiceData is called again while an earlier call awaits its lookups
NextConc ==
    \/ \E c \in Calls : \E rawData \in SmallBatches : InOrder(c) /\ Start(c, rawData)
    \/ \E c \in Calls : Step(c)

SpecConc == Init /\ [][NextConc]_vars

----------------------------------------------------------------------------
(* Reading the outcome of a call *)

Done(c) == calls[c].pc = "done"

\* the output records: call c, position i
Outputs == {<<c, i>> \in Calls \X (1..MaxRows) : Done(c) /\ i \in DOMAIN calls[c].result}

In(o) == calls[o[1]].rawData[o[2]]

Out(o) == calls[o[1]].result[o[2]]

\* how the lookup of call c for a date ended; "none" if the call made none
HowFetched(c, date) ==
    IF date \in DOMAIN calls[c].fetches THEN calls[c].fetches[date].how ELSE "none"

\* the USD-equivalent rate call c resolved for a currency on a date: 1 for
\* USD; the inverse of the rate the source answered with; the cached rate on
\* a cache hit; the fallback 1 when the lookup failed or gave no such rate
ResolvedRate(c, date, currency) ==
    LET how == HowFetched(c, date)
        f   == calls[c].fetches[date]
    IN  IF currency = "USD" THEN One
        ELSE IF how = "ok" /\ currency \in DOMAIN f.body THEN Inv(f.body[currency])
        ELSE IF how = "hit" /\ currency \in DOMAIN f.rates THEN f.rates[currency]
        ELSE One

\* the calendar day (UTC) an instant falls on
DayOf(ms) == ms \div MsPerDay

\* whether the Due_Date text is a calendar date new Date() can read
DueParses(text) == ~IsNaN(getTime(text))

DueDay(text) == DayOf(getTime(text)[1])

----------------------------------------------------------------------------
(* Claims *)

\* C1: processInvoiceData returns one record per input row, in input order:
\* the i-th record carries the i-th row's client, currency and dates, also
\* when lookups failed.
C1_OneRecordPerRowInOrder ==
    \A c \in Calls : Done(c) =>
        /\ DOMAIN calls[c].result = 1..Len(calls[c].rawData)
        /\ \A i \in 1..Len(calls[c].rawData) :
              LET row == calls[c].rawData[i]
                  rec == calls[c].result[i]
              IN  /\ rec.Client = TextOr(row, "Client", "")
                  /\ rec.Currency = TextOr(row, "Currency", "USD")
                  /\ rec.Invoice_Date = TextOr(row, "Invoice_Date", "")
                  /\ rec.Due_Date = TextOr(row, "Due_Date", "")

\* a finished two-row batch of different clients, one lookup answered and
\* one failed, one row without any invoice date
C1_Witness ==
    \E c \in Calls :
        /\ Done(c)
        /\ Len(calls[c].rawData) = 2
        /\ calls[c].rawData[1].Client = "Acme"
        /\ calls[c].rawData[2].Client = "Bare"
        /\ HowFetched(c, "2024-01-15") = "ok"
        /\ HowFetched(c, "2024-02-10") = "network-error"
        /\ Len(calls[c].result) = 2

\* C2: usd_amount_at_invoice is Invoice_Amount times the USD-equivalent rate
\* resolved for the record's currency on its invoice date, the inverse of
\* the rate the source returned; 10000 EUR at 1.08 gives 10800.
C2_UsdAmountAtInvoice ==
    \A o \in Outputs :
        /\ Out(o).usd_amount_at_invoice =
              Mul(Out(o).Invoice_Amount,
                  ResolvedRate(o[1], Out(o).Invoice_Date, Out(o).Currency))
        /\ ( /\ Out(o).Client = "Acme"
             /\ HowFetched(o[1], "2024-01-15") = "ok"
             /\ "EUR" \in DOMAIN calls[o[1]].fetches["2024-01-15"].body
             /\ calls[o[1]].fetches["2024-01-15"].body["EUR"] = <<25, 27>> )
           => Out(o).usd_amount_at_invoice = Whole(10800)

C2_Witness ==
    \E o \in Outputs :
        /\ Out(o).Client = "Acme"
        /\ HowFetched(o[1], "2024-01-15") = "ok"
        /\ "EUR" \in DOMAIN calls[o[1]].fetches["2024-01-15"].body
        /\ calls[o[1]].fetches["2024-01-15"].body["EUR"] = <<25, 27>>
        /\ Out(o).usd_amount_at_invoice = Whole(10800)

\* C3: whatever way a lookup fails, fetchFXRates resolves with rate 1 for
\* every requested currency, the records of that invoice date get
\* usd_amount_at_invoice = Invoice_Amount, and the finished call returns a
\* record for every row.
C3_FailedLookupFallsBack ==
    \A c \in Calls :
        /\ \A d \in DOMAIN calls[c].fetches :
              calls[c].fetches[d].how \in Failures =>
                  \A cur \in calls[c].currencies :
                      /\ cur \in DOMAIN calls[c].fetches[d].rates
                      /\ calls[c].fetches[d].rates[cur] = One
        /\ Done(c) =>
              /\ Len(calls[c].result) = Len(calls[c].rawData)
              /\ \A i \in DOMAIN calls[c].result :
                    HowFetched(c, calls[c].result[i].Invoice_Date) \in Failures =>
                        calls[c].result[i].usd_amount_at_invoice
                            = calls[c].result[i].Invoice_Amount

\* a finished call whose two lookups failed in different ways, with a EUR row
C3_Witness ==
    \E o \in Outputs :
        /\ Out(o).Currency = "EUR"
        /\ HowFetched(o[1], "2024-01-15") = "malformed-body"
        /\ HowFetched(o[1], "2024-02-10") = "not-ok"
        /\ Out(o).Invoice_Date = "2024-01-15"
        /\ Out(o).usd_amount_at_invoice = Whole(10000)

\* C4: a record whose row has a Payment_Date has status Paid, whatever its
\* Due_Date.
C4_PaymentDateMeansPaid ==
    \A o \in Outputs : Truthy(In(o), "Payment_Date") => Out(o).status = "Paid"

\* a paid record whose due date lies before the day it is processed
C4_Witness ==
    \E o \in Outputs :
        /\ Truthy(In(o), "Payment_Date")
        /\ DueParses(Out(o).Due_Date)
        /\ DueDay(Out(o).Due_Date) < DayOf(calls[o[1]].today)
        /\ Out(o).status = "Paid"

\* C5: a record whose row has no Payment_Date (blank or missing) has neither
\* usd_amount_at_payment nor fx_gain_loss and is not Paid, even when the row
\* has a Payment_Amount.
C5_NoPaymentDateNoPaymentFields ==
    \A o \in Outputs :
        ~Truthy(In(o), "Payment_Date") =>
            /\ ~Has(Out(o), "usd_amount_at_payment")
            /\ ~Has(Out(o), "fx_gain_loss")
            /\ Out(o).status # "Paid"

\* a record of a row with a blank Payment_Date and a Payment_Amount
C5_Witness ==
    \E o \in Outputs :
        /\ Has(In(o), "Payment_Date")
        /\ In(o).Payment_Date = ""
        /\ TruthyChars(In(o), "Payment_Amount")
        /\ ~Has(Out(o), "usd_amount_at_payment")
        /\ Out(o).status = "Overdue"

\* C6: a row with a Payment_Date and a Payment_Amount that parses to a number
\* (zero included) yields usd_amount_at_payment = Payment_Amount times the
\* rate resolved for its currency on the payment date, and an fx_gain_loss.
C6_PaymentAmountConverted ==
    \A o \in Outputs :
        ( /\ Truthy(In(o), "Payment_Date")
          /\ TruthyChars(In(o), "Payment_Amount")
          /\ ~IsNaN(parseFloat(In(o).Payment_Amount)) )
        => /\ Has(Out(o), "usd_amount_at_payment")
           /\ Has(Out(o), "fx_gain_loss")
           /\ Out(o).usd_amount_at_payment =
                 Mul(parseFloat(In(o).Payment_Amount),
                     ResolvedRate(o[1], In(o).Payment_Date, Out(o).Currency))

\* C7: in a record of a currency other than USD that has an fx_gain_loss,
\* fx_gain_loss = usd_amount_at_payment - usd_amount_at_invoice.
C7_GainLossIsDifference ==
    \A o \in Outputs :
        (Out(o).Currency # "USD" /\ Has(Out(o), "fx_gain_loss")) =>
            Out(o).fx_gain_loss =
                Sub(Out(o).usd_amount_at_payment, Out(o).usd_amount_at_invoice)

\* C8: a record in USD (given, or defaulted from a blank Currency) has
\* usd_amount_at_invoice = Invoice_Amount, and fx_gain_loss = 0 when it has
\* one, whatever the source answered.
C8_ReportingCurrencyUnconverted ==
    \A o \in Outputs :
        (~Truthy(In(o), "Currency") \/ In(o).Currency = "USD") =>
            /\ Out(o).Currency = "USD"
            /\ Out(o).usd_amount_at_invoice = Out(o).Invoice_Amount
            /\ Has(Out(o), "fx_gain_loss") => Out(o).fx_gain_loss = Whole(0)

\* a USD record with an fx_gain_loss whose invoice-date lookup was answered
\* with a rate for USD
C8_Witness ==
    \E o \in Outputs :
        /\ In(o).Currency = "USD"
        /\ Out(o).Invoice_Amount = Whole(10000)
        /\ HowFetched(o[1], Out(o).Invoice_Date) = "ok"
        /\ "USD" \in DOMAIN calls[o[1]].fetches[Out(o).Invoice_Date].body
        /\ Has(Out(o), "fx_gain_loss")

\* C9: days_outstanding is never negative, and is 0 for a due date that is
\* the day of processing or a later day, at any time of that day.
C9_DaysOutstandingZeroUntilDue ==
    \A o \in Outputs :
        LET days == Out(o).days_outstanding
        IN  /\ ~IsNaN(days) => days[1] >= 0
            /\ ( /\ DueParses(Out(o).Due_Date)
                 /\ DueDay(Out(o).Due_Date) >= DayOf(calls[o[1]].today) )
               => days = Whole(0)

\* C10: without a Payment_Date the status is Overdue exactly when the
\* Due_Date is a calendar date before the day of processing, and Outstanding
\* otherwise (due today, due later, blank or unreadable Due_Date).
C10_OverdueOnlyAfterDueDay ==
    \A o \in Outputs :
        ~Truthy(In(o), "Payment_Date") =>
            IF DueParses(Out(o).Due_Date)
               /\ DueDay(Out(o).Due_Date) < DayOf(calls[o[1]].today)
            THEN Out(o).status = "Overdue"
            ELSE Out(o).status = "Outstanding"


----------------------------------------------------------------------------
(* The rate cache over several calls *)

\* the call c sent a request to the rate source for the date text
Sent(c, date) ==
    /\ date \in DOMAIN calls[c].fetches
    /\ calls[c].fetches[date].how \notin {"hit", "invalid-date"}

\* the call c got rates for the date text from fetchFXRates
Settled(c, date) ==
    /\ date \in DOMAIN calls[c].fetches
    /\ calls[c].fetches[date].how # "pending"

\* C11: over the calls of one process lifetime at most one request goes to the
\* rate source for any pair of a date and a currency, whatever set of
\* currencies the later batch asks for and also when the first lookup fell back
C11_OneLookupPerDateAndCurrency ==
    \A date \in AllDates : \A currency \in Known :
        Cardinality({c \in Calls : Sent(c, date) /\ currency \in calls[c].currencies}) <= 1

\* the rate of a currency in what fetchFXRates returned to call c for the
\* date text, as line 147 reads it
Returned(c, date, currency) == RateOr1(calls[c].fetches[date].rates, currency)

\* C12: once fetchFXRates has returned rates for a cache key (a date and the
\* requested currencies), a later call for that key returns the same rate for
\* each currency, the fallback 1 included, whatever the rate source answers later
C12_SameRatesOnRepeat ==
    \A date \in AllDates : \A currency \in Known :
        (/\ Settled(1, date) /\ Settled(2, date)
         /\ calls[1].currencies = calls[2].currencies)
            => Returned(2, date, currency) = Returned(1, date, currency)

\* C13: fetchFXRates is single-flight: of the overlapping calls for one cache
\* key at most one has a request at the rate source, the later caller awaits
\* the result of the request in flight
C13_SingleFlight ==
    \A date \in AllDates :
        ~(/\ Pending(1, date) /\ Pending(2, date)
          /\ cacheKey(date, calls[1].currencies) = cacheKey(date, calls[2].currencies))

\* C14: every call of processInvoiceData eventually completes: a lookup the
\* rate source never answers is given up after a bounded time and falls back
\* to the rate 1, so the call still returns its records
C14_EveryCallCompletes ==
    \A c \in Calls : (calls[c].pc = "fetching") ~> Done(c)

\* the source answered the lookup of call 2 for the date text as it had
\* answered the lookup of call 1, or call 2 made no request for it
SameAnswer(date) ==
    \/ HowFetched(2, date) = "hit"
    \/ /\ HowFetched(2, date) = HowFetched(1, date)
       /\ calls[2].fetches[date].body = calls[1].fetches[date].body

\* C15: processInvoiceData called twice on the same rows, with a rate source
\* that answers each request the same way both times and the same today,
\* returns the same records both times
C15_SameInputSameOutput ==
    (/\ Done(1) /\ Done(2)
     /\ calls[2].rawData = calls[1].rawData
     /\ calls[2].today = calls[1].today
     /\ \A date \in DOMAIN calls[2].fetches : SameAnswer(date))
        => calls[2].result = calls[1].result

\* the second call on the same rows was served from the cache with a rate
\* the source had reported
C15_Witness ==
    /\ Done(1) /\ Done(2)
    /\ calls[2].rawData = calls[1].rawData
    /\ calls[2].today = calls[1].today
    /\ \E date \in DOMAIN calls[2].fetches :
           /\ HowFetched(2, date) = "hit"
           /\ Returned(2, date, "EUR") # One

----------------------------------------------------------------------------
(* One upload: lookups, normalisation, aging *)

\* C16: USD resolves to 1 without the cache or the rate source: a batch whose
\* rows are all in USD, or carry no Currency, sends no request
C16_UsdBatchSendsNoRequest ==
    \A c \in Calls :
        (calls[c].pc # "idle" /\ calls[c].currencies \subseteq {"USD"})
            => \A date \in AllDates : ~Sent(c, date)

\* the row has no text in the column f: the column is missing or the cell empty
NoText(row, f) == f \notin DOMAIN row \/ row[f] = ""

\* the row has no amount in the column f
NoAmount(row, f) == f \notin DOMAIN row \/ row[f] = <<>>

\* C17: normalisation raises nothing and substitutes defaults: a blank Client,
\* Invoice_Date or Due_Date becomes '', an absent or unreadable Invoice_Amount
\* becomes 0, an absent Currency becomes 'USD', a blank Payment_Date and an
\* absent Payment_Amount are left out of the record; a row without Currency
\* whose Invoice_Amount is 'abc' gives USD, 0 and usd_amount_at_invoice 0
C17_NormalisationDefaults ==
    /\ \A c \in Calls : Done(c) => Len(calls[c].result) = Len(calls[c].rawData)
    /\ \A o \in Outputs :
        LET row == In(o)
            rec == Out(o)
        IN  /\ NoText(row, "Client") => rec.Client = ""
            /\ NoText(row, "Invoice_Date") => rec.Invoice_Date = ""
            /\ NoText(row, "Due_Date") => rec.Due_Date = ""
            /\ (NoAmount(row, "Invoice_Amount") \/ row.Invoice_Amount = Tabc)
                  => rec.Invoice_Amount = Whole(0)
            /\ NoText(row, "Currency") => rec.Currency = "USD"
            /\ NoText(row, "Payment_Date") => "Payment_Date" \notin DOMAIN rec
            /\ NoAmount(row, "Payment_Amount") => "Payment_Amount" \notin DOMAIN rec
            /\ (NoText(row, "Currency") /\ ~NoAmount(row, "Invoice_Amount")
                   /\ row.Invoice_Amount = Tabc)
                  => /\ rec.Currency = "USD"
                     /\ rec.Invoice_Amount = Whole(0)
                     /\ rec.usd_amount_at_invoice = Whole(0)

\* a batch with a row without Currency whose amount is 'abc' and a row with
\* nothing but a client name has been processed
C17_Witness ==
    \E o \in Outputs : \E p \in Outputs :
        /\ o[1] = p[1]
        /\ In(o).Currency = "" /\ In(o).Invoice_Amount = Tabc
        /\ Out(o).usd_amount_at_invoice = Whole(0)
        /\ NoAmount(In(p), "Invoice_Amount") /\ NoText(In(p), "Due_Date")
        /\ "Payment_Amount" \notin DOMAIN In(p)

----------------------------------------------------------------------------
(* Overlapping calls *)

\* C18: an entry of the rate cache is written once: after it has been created
\* no later step replaces, refreshes or removes it, the completion of another
\* lookup for the same key, started concurrently, included
C18_CacheEntryWriteOnce ==
    [][\A key \in DOMAIN fxRateCache :
           /\ key \in DOMAIN fxRateCache'
           /\ fxRateCache'[key] = fxRateCache[key]]_vars

----------------------------------------------------------------------------
(* The cache key *)

\* C19: the cache is keyed by the normalised date (YYYY-MM-DD) and the
\* currency: two date texts of the same day share one cache entry, so the day
\* is looked up once per currency
C19_SameDayOneEntry ==
    \A k1 \in DOMAIN fxRateCache : \A k2 \in DOMAIN fxRateCache :
        (formattedDate(k1[1]) = formattedDate(k2[1]) /\ k1[2] = k2[2]) => k1 = k2

----------------------------------------------------------------------------
(* Aging of every record *)

\* C20: days_outstanding is a whole number, 0 or more, in every record the
\* pipeline returns, also when Due_Date is missing, blank or unreadable: it is
\* never NaN
C20_DaysOutstandingIsCount ==
    \A o \in Outputs :
        LET days == Out(o).days_outstanding
        IN  ~IsNaN(days) /\ days[2] = 1 /\ days[1] >= 0

----------------------------------------------------------------------------
(* Status and aging of one record *)

\* C21: status and aging of a record agree: for every record with a readable
\* Due_Date and no Payment_Date, the status is Overdue exactly when
\* days_outstanding is 1 or more, and Outstanding exactly when it is 0 (both
\* derived at the same instant)
C21_StatusAgreesWithAging ==
    \A o \in Outputs :
        (DueParses(Out(o).Due_Date) /\ ~Has(Out(o), "Payment_Date")) =>
            LET days == Out(o).days_outstanding
            IN  /\ ~IsNaN(days)
                /\ Out(o).status = "Overdue" <=> days[1] >= 1
                /\ Out(o).status = "Outstanding" <=> days = Whole(0)

\* an unpaid record processed at 12:00 of its due day: Overdue, one day
C21_Witness ==
    \E o \in Outputs :
        /\ DueParses(Out(o).Due_Date) /\ ~Has(Out(o), "Payment_Date")
        /\ DueDay(Out(o).Due_Date) = DayOf(calls[o[1]].today)
        /\ calls[o[1]].today > getTime(Out(o).Due_Date)[1]
        /\ Out(o).status = "Overdue"
        /\ Out(o).days_outstanding = Whole(1)

\* an unpaid record processed at 00:00:00.000 of its due day: Outstanding, 0
C21_WitnessOnTheInstant ==
    \E o \in Outputs :
        /\ DueParses(Out(o).Due_Date) /\ ~Has(Out(o), "Payment_Date")
        /\ calls[o[1]].today = getTime(Out(o).Due_Date)[1]
        /\ Out(o).status = "Outstanding"
        /\ Out(o).days_outstanding = Whole(0)

====
